---- MODULE Spec2Model ----
(***************************************************************************)
(* A model of dsync's synchronization engine: SyncHandler                  *)
(* (sync_service/core/handler.py) and perform_initial_sync                 *)
(* (sync_service/cli/main.py).                                             *)
(*                                                                         *)
(* File names are sequences of one-character strings, paths are sequences  *)
(* of names, so that startswith, splitext, relpath and fnmatch are         *)
(* computed on characters and components as Python computes them.          *)
(***************************************************************************)
EXTENDS Integers, Sequences, FiniteSets, TLC

----------------------------------------------------------------------------
(* Bounds of the model.                                                    *)

\* The wall clock advances in ticks; TicksPerSecond ticks share one
\* strftime('%Y%m%d_%H%M%S') timestamp.
TicksPerSecond == 2
\* First clock value, and the number of Tick steps a behaviour may take.
StartTime == 3
MaxTicks == 1
\* Number of notifications the watcher delivers in a behaviour.
MaxEvents == 2
\* Number of direct calls of sync_file and handle_delete in a behaviour.
MaxCalls == 2
\* Number of writes to source files the environment performs.
MaxSrcWrites == 1
\* Number of times a device is plugged in or pulled out in a behaviour.
MaxPlugs == 3

----------------------------------------------------------------------------
(* Characters, names and paths.                                            *)

DotDot == <<".", ".">>
CurDir == <<".">>

\* str.startswith on a sequence of characters
StartsWith(s, prefix) ==
    /\ Len(s) >= Len(prefix)
    /\ SubSeq(s, 1, Len(prefix)) = prefix

RECURSIVE PathStr(_)
\* the string of an absolute path: "/" + name for each component
PathStr(p) ==
    IF p = <<>> THEN <<>>
    ELSE PathStr(SubSeq(p, 1, Len(p) - 1)) \o <<"/">> \o p[Len(p)]

RECURSIVE RelStr(_)
\* the string of a relative path: components joined by "/"
RelStr(r) ==
    IF r = <<>> THEN <<>>
    ELSE IF Len(r) = 1 THEN r[1]
    ELSE RelStr(SubSeq(r, 1, Len(r) - 1)) \o <<"/">> \o r[Len(r)]

RECURSIVE Normalize(_)
\* the file the operating system resolves a path to: ".." steps to the
\* parent, "." stays
Normalize(p) ==
    IF p = <<>> THEN <<>>
    ELSE LET head == Normalize(SubSeq(p, 1, Len(p) - 1))
             last == p[Len(p)]
         IN  IF last = CurDir THEN head
             ELSE IF last = DotDot
                  THEN (IF head = <<>> THEN <<>> ELSE SubSeq(head, 1, Len(head) - 1))
                  ELSE Append(head, last)

RECURSIVE CommonLen(_, _)
\* length of the longest common prefix of two component sequences
CommonLen(p, q) ==
    IF p = <<>> \/ q = <<>> \/ p[1] # q[1] THEN 0
    ELSE 1 + CommonLen(Tail(p), Tail(q))

\* os.path.relpath(path, start), both absolute and normalized; the result is
\* a sequence of components, <<".">> when the two are equal
RelPath(path, start) ==
    LET i == CommonLen(path, start)
        ups == [k \in 1..(Len(start) - i) |-> DotDot]
        rest == SubSeq(path, i + 1, Len(path))
    IN  IF ups \o rest = <<>> THEN <<CurDir>> ELSE ups \o rest

\* os.path.join(a, rel) for a relative rel
Join(a, rel) == a \o rel

\* os.path.dirname / os.path.basename
DirName(p) == IF p = <<>> THEN <<>> ELSE SubSeq(p, 1, Len(p) - 1)
BaseName(p) == IF p = <<>> THEN <<>> ELSE p[Len(p)]

\* pathlib.Path(rel).parts: the components, "." dropped
Parts(rel) == SelectSeq(rel, LAMBDA n : n # CurDir)

\* index of the last "." of a name, 0 when there is none
LastDot(n) ==
    IF \E i \in 1..Len(n) : n[i] = "."
    THEN CHOOSE i \in 1..Len(n) : n[i] = "." /\ \A j \in (i + 1)..Len(n) : n[j] # "."
    ELSE 0

\* os.path.splitext on a file name: <<root, ext>>; leading dots are not an
\* extension separator
SplitExt(n) ==
    LET d == LastDot(n)
    IN  IF d > 0 /\ \E i \in 1..(d - 1) : n[i] # "."
        THEN <<SubSeq(n, 1, d - 1), SubSeq(n, d, Len(n))>>
        ELSE <<n, <<>>>>

RECURSIVE FnMatch(_, _)
\* fnmatch.fnmatch(s, pat) with the wildcards "*" (any characters, "/"
\* included) and "?" (one character)
FnMatch(s, pat) ==
    IF pat = <<>> THEN s = <<>>
    ELSE IF pat[1] = "*"
         THEN \/ FnMatch(s, Tail(pat))
              \/ (s # <<>> /\ FnMatch(Tail(s), pat))
         ELSE /\ s # <<>>
              /\ (pat[1] = "?" \/ pat[1] = s[1])
              /\ FnMatch(Tail(s), Tail(pat))

\* one decimal digit as a character
Digit(n) ==
    CASE n = 0 -> "0" [] n = 1 -> "1" [] n = 2 -> "2" [] n = 3 -> "3"
      [] n = 4 -> "4" [] n = 5 -> "5" [] n = 6 -> "6" [] n = 7 -> "7"
      [] n = 8 -> "8" [] OTHER -> "9"

\* datetime.now().strftime('%Y%m%d_%H%M%S'): the clock at a resolution of
\* one second
Timestamp(t) == <<Digit(t \div TicksPerSecond)>>

RECURSIVE Format(_, _, _, _)
\* str.format of a duplicate_format template, a sequence of literal
\* characters and of the placeholders
Format(tpl, original_name, timestamp, ext) ==
    IF tpl = <<>> THEN <<>>
    ELSE LET piece == CASE tpl[1] = "{original_name}" -> original_name
                        [] tpl[1] = "{timestamp}" -> timestamp
                        [] tpl[1] = "{ext}" -> ext
                        [] OTHER -> <<tpl[1]>>
         IN  piece \o Format(Tail(tpl), original_name, timestamp, ext)

----------------------------------------------------------------------------
(* The filesystem: a record of the regular files (content and modification *)
(* time by normalized absolute path), of the directories, of the           *)
(* directories that may not be removed, and of the files that may not be   *)
(* read.                                                                   *)

\* every directory a path walks through exists
Reachable(fs, p) ==
    \A i \in 0..(Len(p) - 1) : Normalize(SubSeq(p, 1, i)) \in fs.dirs

\* os.path.exists
Exists(fs, p) ==
    /\ Reachable(fs, p)
    /\ Normalize(p) \in (DOMAIN fs.files) \cup fs.dirs

\* os.path.isfile
IsFile(fs, p) ==
    /\ Reachable(fs, p)
    /\ Normalize(p) \in DOMAIN fs.files

\* open(p, "rb") and the reads that follow succeed: p is a regular file
\* that may be read; otherwise they raise OSError
Readable(fs, p) ==
    /\ IsFile(fs, p)
    /\ Normalize(p) \notin fs.unreadable

\* os.listdir(d) = []
ListDirEmpty(fs, d) ==
    /\ \A f \in DOMAIN fs.files : DirName(f) # Normalize(d)
    /\ \A e \in fs.dirs : e = <<>> \/ DirName(e) # Normalize(d)

\* os.rmdir(d): raises when d is not an empty directory, or when the
\* directory may not be removed (fs.readonly)
Rmdir(fs, d) ==
    IF \/ Normalize(d) \notin fs.dirs
       \/ ~ListDirEmpty(fs, d)
       \/ Normalize(d) \in fs.readonly
    THEN [fs |-> fs, raised |-> TRUE]
    ELSE [fs |-> [fs EXCEPT !.dirs = @ \ {Normalize(d)}], raised |-> FALSE]

\* os.makedirs(p, exist_ok=True): p and its missing ancestors are created;
\* raises when a component is a regular file
MakeDirs(fs, p) ==
    LET made == {Normalize(SubSeq(p, 1, i)) : i \in 0..Len(p)}
    IN  IF made \cap DOMAIN fs.files # {}
        THEN [fs |-> fs, raised |-> TRUE]
        ELSE [fs |-> [fs EXCEPT !.dirs = @ \cup made], raised |-> FALSE]

\* shutil.copy2(src, dst): content and modification time of src are written
\* to dst (into dst when dst is a directory); raises when src is not a
\* file that may be read, when dst's directory is missing, or when both are
\* one file
Copy2(fs, src, dst) ==
    LET target == IF Exists(fs, dst) /\ Normalize(dst) \in fs.dirs
                  THEN Append(Normalize(dst), BaseName(src))
                  ELSE Normalize(dst)
    IN  IF \/ ~Readable(fs, src)
           \/ ~Reachable(fs, dst)
           \/ target \in fs.dirs
           \/ target = Normalize(src)
        THEN [fs |-> fs, raised |-> TRUE]
        ELSE [fs |-> [fs EXCEPT !.files = (target :> fs.files[Normalize(src)]) @@ @],
              raised |-> FALSE]

\* the files mapping without the file at path p
RemoveFile(files, p) == [q \in (DOMAIN files) \ {p} |-> files[q]]

\* a move that leaves the source file in place
MoveKeepsSource(fs, src, dst) == Copy2(fs, src, dst)

\* shutil.move(src, dst) of a regular file: os.rename, which replaces an
\* existing regular file at dst; the file moves into dst when dst is a
\* directory
Move(fs, src, dst) ==
    LET target == IF Exists(fs, dst) /\ Normalize(dst) \in fs.dirs
                  THEN Append(Normalize(dst), BaseName(src))
                  ELSE Normalize(dst)
    IN  IF \/ ~IsFile(fs, src)
           \/ ~Reachable(fs, dst)
           \/ target \in fs.dirs
        THEN [fs |-> fs, raised |-> TRUE]
        ELSE IF target = Normalize(src)
        THEN [fs |-> fs, raised |-> FALSE]
        ELSE [fs |-> [fs EXCEPT !.files =
                        (target :> fs.files[Normalize(src)])
                            @@ RemoveFile(@, Normalize(src))],
              raised |-> FALSE]

\* os.remove(p)
Remove(fs, p) ==
    IF ~IsFile(fs, p)
    THEN [fs |-> fs, raised |-> TRUE]
    ELSE [fs |-> [fs EXCEPT !.files = RemoveFile(@, Normalize(p))], raised |-> FALSE]

\* calculate_file_hash: the digest of the bytes read; equal contents and
\* only equal contents have equal digests
calculate_file_hash(fs, p) == <<"md5", fs.files[Normalize(p)].content>>

\* os.path.getmtime
GetMTime(fs, p) == fs.files[Normalize(p)].mtime

----------------------------------------------------------------------------
(* SyncHandler: the pure part of each method, on a handler record h and a  *)
(* filesystem fs.                                                          *)

\* a should_exclude that reads the patterns only
should_exclude_patterns_only(h, path) ==
    LET relative_path == RelPath(path, h.source_dir)
    IN  \E k \in 1..Len(h.exclude_patterns) :
            FnMatch(RelStr(relative_path), h.exclude_patterns[k])

\* should_exclude(path): the path is made relative to source_dir, whichever
\* tree it belongs to
should_exclude(h, path) ==
    LET relative_path == RelPath(path, h.source_dir)
        parts == Parts(relative_path)
    IN  \/ /\ h.config.skip_hidden
           /\ \E i \in 1..Len(parts) : StartsWith(parts[i], <<".">>)
        \/ \E k \in 1..Len(h.exclude_patterns) :
              FnMatch(RelStr(relative_path), h.exclude_patterns[k])

\* files_are_identical(file1, file2): equal digests; an unreadable file
\* (OSError) gives False
files_are_identical(h, fs, file1, file2) ==
    /\ Readable(fs, file1)
    /\ Readable(fs, file2)
    /\ calculate_file_hash(fs, file1) = calculate_file_hash(fs, file2)

\* a trash path that loses the extension
get_trash_path_without_ext(h, filename, now) ==
    LET trash_dir == Join(h.destination_dir, h.conflict_settings.trash_dir)
        base_name == SplitExt(filename)[1]
    IN  Append(trash_dir, base_name \o <<"_">> \o Timestamp(now))

\* get_trash_path(filename) at clock value now
get_trash_path(h, filename, now) ==
    LET trash_dir == Join(h.destination_dir, h.conflict_settings.trash_dir)
        base_name == SplitExt(filename)[1]
        ext == SplitExt(filename)[2]
        trash_name == base_name \o <<"_">> \o Timestamp(now) \o ext
    IN  Append(trash_dir, trash_name)

\* get_duplicate_path(dest_path) at clock value now
get_duplicate_path(h, dest_path, now) ==
    LET original_name == SplitExt(BaseName(dest_path))[1]
        ext == SplitExt(BaseName(dest_path))[2]
        new_name == Format(h.conflict_settings.duplicate_format,
                           original_name, Timestamp(now), ext)
    IN  Append(DirName(dest_path), new_name)

RECURSIVE cleanup_up_to_the_top(_, _, _)
\* a cleanup that does not stop at the destination root
cleanup_up_to_the_top(h, fs, directory) ==
    IF ~Exists(fs, directory) THEN fs
    ELSE IF directory = <<>> THEN fs
    ELSE IF Normalize(directory) \in fs.dirs /\ ListDirEmpty(fs, directory)
         THEN LET removed == Rmdir(fs, directory)
              IN  IF removed.raised THEN fs
                  ELSE cleanup_up_to_the_top(h, removed.fs, DirName(directory))
         ELSE fs

RECURSIVE cleanup_empty_dirs(_, _, _)
\* cleanup_empty_dirs(directory): the filesystem after the recursion; an
\* OSError of listdir or rmdir ends it
cleanup_empty_dirs(h, fs, directory) ==
    IF ~Exists(fs, directory) THEN fs
    ELSE IF directory = h.destination_dir THEN fs
    ELSE IF directory = <<>> THEN fs
    ELSE IF Normalize(directory) \in fs.dirs /\ ListDirEmpty(fs, directory)
         THEN LET removed == Rmdir(fs, directory)
              IN  IF removed.raised THEN fs
                  ELSE cleanup_empty_dirs(h, removed.fs, DirName(directory))
         ELSE fs

\* the destination path sync_file and handle_delete compute for src_path
dest_path_of(h, src_path) ==
    Join(h.destination_dir, RelPath(src_path, h.source_dir))

\* a keep_newest test that also accepts equal modification times
SourceIsNewerOrEqual(fs, src_path, dest_path) ==
    GetMTime(fs, src_path) >= GetMTime(fs, dest_path)

\* the test of the keep_newest branch
SourceIsNewer(fs, src_path, dest_path) ==
    GetMTime(fs, src_path) > GetMTime(fs, dest_path)

\* the copy branch shared by the policies: makedirs of the parent, copy2
CopyWithDirs(fs, src_path, dst) ==
    LET made == MakeDirs(fs, DirName(dst))
    IN  IF made.raised THEN made ELSE Copy2(made.fs, src_path, dst)

\* the body of sync_file(src_path) between the two assignments of
\* is_syncing: the filesystem it leaves and whether it raised
sync_file_body(h, fs, src_path, now) ==
    LET dest_path == dest_path_of(h, src_path)
        same == [fs |-> fs, raised |-> FALSE]
    IN  IF should_exclude(h, src_path) THEN same
        ELSE IF Exists(fs, dest_path)
        THEN IF files_are_identical(h, fs, src_path, dest_path) THEN same
             ELSE IF h.conflict_settings.modified_files = "keep_both"
             THEN IF h.dry_run THEN same
                  ELSE CopyWithDirs(fs, src_path,
                                    get_duplicate_path(h, dest_path, now))
             ELSE IF h.conflict_settings.modified_files = "keep_newest"
             THEN IF ~IsFile(fs, src_path) \/ ~IsFile(fs, dest_path)
                  THEN [fs |-> fs, raised |-> TRUE]
                  ELSE IF SourceIsNewer(fs, src_path, dest_path) /\ ~h.dry_run
                       THEN Copy2(fs, src_path, dest_path)
                       ELSE same
             ELSE IF ~h.dry_run THEN Copy2(fs, src_path, dest_path)
                  ELSE same
        ELSE CopyWithDirs(fs, src_path, dest_path)

\* the body of handle_delete(src_path)
handle_delete_body(h, fs, src_path, now) ==
    LET dest_path == dest_path_of(h, src_path)
        same == [fs |-> fs, raised |-> FALSE]
        cleaned(f) == IF h.config.cleanup_empty_dirs
                      THEN cleanup_empty_dirs(h, f, DirName(dest_path))
                      ELSE f
    IN  IF ~Exists(fs, dest_path) THEN same
        ELSE IF h.dry_run THEN same
        ELSE IF h.conflict_settings.deleted_files = "trash"
        THEN LET trash_path == get_trash_path(h, BaseName(dest_path), now)
                 made == MakeDirs(fs, DirName(trash_path))
                 moved == Move(made.fs, dest_path, trash_path)
             IN  IF made.raised THEN made
                 ELSE IF moved.raised THEN moved
                 ELSE [fs |-> cleaned(moved.fs), raised |-> FALSE]
        ELSE IF h.conflict_settings.deleted_files = "delete"
        THEN LET removed == Remove(fs, dest_path)
             IN  IF removed.raised THEN removed
                 ELSE [fs |-> cleaned(removed.fs), raised |-> FALSE]
        ELSE [fs |-> cleaned(fs), raised |-> FALSE]

----------------------------------------------------------------------------
(* The paths of the model.  The source root is /h/s, the destination root  *)
(* /m/d on the mount point /m; /h/s2 is a sibling of the source root whose *)
(* name has the root's name as a prefix, /h/o one that has not.            *)

H == <<"h">>
S == <<"s">>
S2 == <<"s", "2">>
O == <<"o">>
M == <<"m">>
D == <<"d">>
K == <<"k">>
G == <<".", "g">>
A == <<"a", ".", "t">>

SourceRoot == <<H, S>>
DestRoot == <<M, D>>

\* files of the source tree: a.t, k/a.t and the hidden .g/a.t
SA == <<H, S, A>>
SK == <<H, S, K, A>>
SG == <<H, S, G, A>>
\* files outside the source tree
S2A == <<H, S2, A>>
OA == <<H, O, A>>
\* their destination counterparts
DA == <<M, D, A>>
DK == <<M, D, K, A>>
\* destination files without a source counterpart: o.t and k/o.t
OT == <<"o", ".", "t">>
DO == <<M, D, OT>>
DKO == <<M, D, K, OT>>
\* a destination file under a hidden directory: .g/a.t
DG == <<M, D, G, A>>

\* paths the watcher reports for files, and the moves it reports
EventPaths == {SA, SK, SG}
ModifiedPaths == {SA}
Moves == {<<SA, SK>>, <<SA, S2A>>, <<SA, OA>>, <<SG, SA>>}
\* the directory the watcher reports directory events for
EventDir == <<H, S, K>>

Contents == {"X", "Y", "Z"}
\* the content a write to a source file leaves
NextContent(c) == IF c = "Z" THEN "X" ELSE "Z"

\* the duplicate_format templates of the model: the default, and one
\* without the timestamp placeholder
DefaultFormat == <<"{original_name}", "_", "{timestamp}", "{ext}">>
PlainFormat == <<"{original_name}", "{ext}">>
\* the exclude pattern of the model, "k/*"
PatternK == <<"k", "/", "*">>
\* the default trash_dir, ".trash", as a relative path
TrashDir == <<<<".", "t", "r", "a", "s", "h">>>>

----------------------------------------------------------------------------
(* State.                                                                  *)

VARIABLES
    fs,         \* the filesystem
    fs0,        \* the filesystem at the start
    now,        \* the wall clock, in ticks
    handler,    \* the fields of the SyncHandler
    threads,    \* per calling thread: where it is in the handler's code
    evlog,      \* the notifications delivered, in order
    calls,      \* the sync_file and handle_delete calls entered, in order
    last,       \* the call whose body ran last
    failed,     \* the calls that ended with a raised error
    writes,     \* number of writes to source files so far
    ticks,      \* number of clock ticks so far
    sync,       \* perform_initial_sync: its locals and its position
    main        \* main: its locals and its position, the observer threads
                \* and the devices that are mounted

vars == <<fs, fs0, now, handler, threads, evlog, calls, last, failed, writes,
          ticks, sync, main>>

\* worker-pool size: min(32, cpu_count() * 2) on one processor
max_workers == 2
Threads == 1..max_workers

NoPath == <<>>
Idle == [pc |-> "idle", op |-> "none", path |-> NoPath, moved_to |-> NoPath,
         ev |-> 0, id |-> 0]
NoFs == [files |-> <<>>, dirs |-> {}, readonly |-> {}, unreadable |-> {}]
NoCall == [id |-> 0, op |-> "none", path |-> NoPath, ev |-> 0, time |-> 0,
           writes |-> 0, pre |-> NoFs, raised |-> FALSE]
NoMain == [pc |-> "off", d |-> 0, p |-> 0, j |-> 0, observers |-> <<>>,
           live |-> {}, detected |-> {}, raising |-> FALSE, interrupted |-> FALSE,
           synced |-> {}, created |-> 0, mounted |-> {}, plugs |-> 0]
NoSync == [phase |-> "off", source_walk |-> {}, files_to_sync |-> {},
           source_files |-> {}, dest_walk |-> {}, dest_files_to_check |-> {},
           pending |-> {}, faulty |-> {}]

----------------------------------------------------------------------------
(* Initial states.                                                         *)

File(c, m) == [content |-> c, mtime |-> m]

\* the source side: the three files of the source tree and the two files
\* next to it, written at time 1
SourceFiles ==
    (SA :> File("X", 1)) @@ (SK :> File("X", 1)) @@ (SG :> File("X", 1))
        @@ (S2A :> File("X", 1)) @@ (OA :> File("X", 1))
SourceDirs ==
    {<<>>, <<H>>, <<H, S>>, <<H, S, K>>, <<H, S, G>>, <<H, S2>>, <<H, O>>, <<M>>}

\* the destination side: no destination root yet, or a root that holds
\* nothing, or a.t (equal to the source, or different and older, as old or
\* newer), or a.t and k/a.t
DestStates ==
    {[files |-> <<>>, dirs |-> {}]}
    \cup
    {[files |-> fa, dirs |-> {DestRoot}] :
        fa \in {<<>>} \cup {DA :> File("X", 1)}
                \cup {DA :> File("Y", m) : m \in 0..2}}
    \cup
    {[files |-> (DA :> File("Y", 0)) @@ (DK :> File("Y", 0)),
      dirs |-> {DestRoot, <<M, D, K>>}]}

InitialFs ==
    {[files |-> SourceFiles @@ d.files, dirs |-> SourceDirs \cup d.dirs,
      readonly |-> {}, unreadable |-> {}] :
        d \in DestStates}

\* the four fields of the conflict policy
PolicyFields == {"deleted_files", "modified_files", "trash_dir", "duplicate_format"}

\* the hardcoded defaults of the conflict policy
DefaultConflictSettings ==
    [k \in PolicyFields |->
        CASE k = "deleted_files" -> "trash"
          [] k = "modified_files" -> "keep_both"
          [] k = "trash_dir" -> TrashDir
          [] k = "duplicate_format" -> DefaultFormat]

\* a dict update that keeps the value a key already has
UpdateKeepsOld(d, u) ==
    [k \in DOMAIN d \cup DOMAIN u |-> IF k \in DOMAIN d THEN d[k] ELSE u[k]]

\* dict.update: the keys of u are written over those of d
Update(d, u) ==
    [k \in DOMAIN d \cup DOMAIN u |-> IF k \in DOMAIN u THEN u[k] ELSE d[k]]

\* a conflict_resolution mapping that sets the given fields to the values
\* of vals; no field set is the mapping config.get(..., {}) returns for an
\* absent key
Layer(fields, vals) == [k \in fields |-> vals[k]]

\* the config dict perform_initial_sync and main pass to the handler: the
\* global settings with the sync pair under 'sync_pair_config'
Config(skip_hidden, cleanup, global, pair) ==
    [skip_hidden |-> skip_hidden,
     cleanup_empty_dirs |-> cleanup,
     conflict_resolution |-> global,
     sync_pair_config |-> [conflict_resolution |-> pair]]

\* SyncHandler.__init__: the fields of a new handler
SyncHandler(source_dir, destination_dir, exclude_patterns, config, dry_run) ==
    [source_dir |-> source_dir,
     destination_dir |-> destination_dir,
     exclude_patterns |-> exclude_patterns,
     config |-> config,
     dry_run |-> dry_run,
     is_syncing |-> FALSE,
     conflict_settings |->
        Update(Update(DefaultConflictSettings, config.conflict_resolution),
               config.sync_pair_config.conflict_resolution)]

\* the handlers of a configuration whose global conflict_resolution sets
\* deleted_files, modified_files and duplicate_format
Handlers ==
    {SyncHandler(SourceRoot, DestRoot, pats,
                 Config(sh, ce,
                        Layer({"deleted_files", "modified_files", "duplicate_format"},
                              [deleted_files |-> del, modified_files |-> mod,
                               duplicate_format |-> fmt]),
                        Layer({}, <<>>)),
                 dr) :
        pats \in {<<>>, <<PatternK>>},
        sh \in BOOLEAN, ce \in BOOLEAN, dr \in BOOLEAN,
        del \in {"trash", "delete", "keep"},
        mod \in {"keep_both", "keep_newest", "overwrite"},
        fmt \in {DefaultFormat, PlainFormat}}

\* the handlers of the model: hidden files are skipped or the pattern
\* excludes k/*; duplicate_format is read under keep_both only and
\* cleanup_empty_dirs outside dry-run only, so they vary only there
InitHandlers ==
    {h \in Handlers :
        /\ h.config.skip_hidden = (h.exclude_patterns = <<>>)
        /\ h.conflict_settings.duplicate_format = DefaultFormat
              \/ h.conflict_settings.modified_files = "keep_both"
        /\ h.config.cleanup_empty_dirs \/ ~h.dry_run}

\* the handlers the watcher is modelled with: the default policy, with and
\* without skip_hidden and the exclude pattern
WatchHandlers ==
    {h \in InitHandlers :
        /\ ~h.dry_run
        /\ h.config.cleanup_empty_dirs
        /\ h.conflict_settings.deleted_files = "trash"
        /\ h.conflict_settings.modified_files = "keep_both"
        /\ h.conflict_settings.duplicate_format = DefaultFormat}

\* and the filesystem: a destination that holds a.t and k/a.t, both
\* different from the source
WatchFs ==
    {f \in InitialFs :
        /\ DA \in DOMAIN f.files /\ f.files[DA] = File("Y", 0)
        /\ DK \in DOMAIN f.files}

InitCommon ==
    /\ fs0 = fs
    /\ now = StartTime
    /\ threads = [t \in Threads |-> Idle]
    /\ evlog = <<>>
    /\ calls = <<>>
    /\ last = NoCall
    /\ failed = {}
    /\ writes = 0
    /\ ticks = 0

\* the watcher with its handler
Init ==
    /\ fs \in WatchFs
    /\ handler \in WatchHandlers
    /\ InitCommon
    /\ main = NoMain
    /\ sync = NoSync

\* a handler whose methods are called one after the other
InitCalls ==
    /\ fs \in InitialFs
    /\ handler \in InitHandlers
    /\ InitCommon
    /\ main = NoMain
    /\ sync = NoSync

----------------------------------------------------------------------------
(* The environment: the clock and the user writing to a source file.       *)

Tick ==
    /\ ticks < MaxTicks
    /\ now' = now + 1
    /\ ticks' = ticks + 1
    /\ UNCHANGED <<main, fs, fs0, handler, threads, evlog, calls, last, failed, writes, sync>>

SrcWrite ==
    /\ writes < MaxSrcWrites
    /\ fs' = [fs EXCEPT !.files[SA] = File(NextContent(@.content), now)]
    /\ writes' = writes + 1
    /\ UNCHANGED <<main, fs0, now, handler, threads, evlog, calls, last, failed, ticks, sync>>

----------------------------------------------------------------------------
(* Live change handling: the four callbacks of the watcher.  A callback    *)
(* reads the guard and returns, or goes on to call sync_file or            *)
(* handle_delete.                                                          *)

Event(kind, src_path, dest_path, is_directory) ==
    [kind |-> kind, src_path |-> src_path, dest_path |-> dest_path,
     is_directory |-> is_directory, guard |-> handler.is_syncing]

\* a callback test that does not read the guard
EventIgnoredWithoutGuard(h, event) == event.is_directory

\* the first statement of each callback: directory events and events that
\* arrive while is_syncing is set return at once
EventIgnored(h, event) == event.is_directory \/ h.is_syncing

\* the common part of a callback: the event is recorded, and the thread
\* proceeds to the call unless the event is ignored
Dispatch(t, event, op) ==
    /\ sync.phase = "off"
    /\ threads[t].pc = "idle"
    /\ \A u \in 1..(t - 1) : threads[u].pc # "idle"
    /\ Len(evlog) < MaxEvents
    /\ evlog' = Append(evlog, event)
    /\ threads' = [threads EXCEPT ![t] =
            IF EventIgnored(handler, event)
            THEN Idle
            ELSE [pc |-> "call", op |-> op, path |-> event.src_path,
                  moved_to |-> event.dest_path, ev |-> Len(evlog) + 1, id |-> 0]]
    /\ UNCHANGED <<main, fs, fs0, now, handler, calls, last, failed, writes, ticks, sync>>

on_created(t, src_path, is_directory) ==
    Dispatch(t, Event("created", src_path, NoPath, is_directory), "sync_file")

on_modified(t, src_path, is_directory) ==
    Dispatch(t, Event("modified", src_path, NoPath, is_directory), "sync_file")

on_moved(t, src_path, dest_path, is_directory) ==
    Dispatch(t, Event("moved", src_path, dest_path, is_directory), "handle_delete")

on_deleted(t, src_path, is_directory) ==
    Dispatch(t, Event("deleted", src_path, NoPath, is_directory), "handle_delete")

----------------------------------------------------------------------------
(* sync_file and handle_delete.  Each is two steps: the assignment         *)
(* is_syncing = True, then the body together with the finally clause.      *)

Begin(t, op) ==
    /\ threads[t].pc = "call"
    /\ threads[t].op = op
    /\ handler' = [handler EXCEPT !.is_syncing = TRUE]
    /\ calls' = Append(calls, [op |-> op, path |-> threads[t].path,
                               ev |-> threads[t].ev, thread |-> t])
    /\ threads' = [threads EXCEPT ![t].pc = "body", ![t].id = Len(calls) + 1]
    /\ UNCHANGED <<main, fs, fs0, now, evlog, last, failed, writes, ticks, sync>>

CallRecord(t, result) ==
    [id |-> threads[t].id, op |-> threads[t].op, path |-> threads[t].path,
     ev |-> threads[t].ev, time |-> now, writes |-> writes, pre |-> fs,
     raised |-> result.raised]

\* the file operations of a call for a path of faulty fail: a call that
\* would write raises the error (OSError of copy2, move or remove) instead
WithFaults(faulty, f, path, result) ==
    IF path \in faulty /\ result.fs # f
    THEN [fs |-> f, raised |-> TRUE]
    ELSE result

\* a thread that an error raised by its call takes away
TaskDoneUnlessRaised(result) ==
    IF result.raised THEN [Idle EXCEPT !.pc = "raised"] ELSE Idle

\* the thread after its call: the except clause of sync_worker, and the
\* future of delete_worker, whose exception is never read, leave the thread
\* free for the next task whether or not the call raised
TaskDone(result) == Idle

\* a finally clause that an error raised by the body skips
FinallyUnlessRaised(h, result) ==
    [h EXCEPT !.is_syncing = IF result.raised THEN @ ELSE FALSE]

\* the finally clause of sync_file and handle_delete: is_syncing = False,
\* whether the body returned or raised
Finally(h, result) == [h EXCEPT !.is_syncing = FALSE]

sync_file_begin(t) == Begin(t, "sync_file")

sync_file_end(t) ==
    /\ threads[t].pc = "body"
    /\ threads[t].op = "sync_file"
    /\ LET result == WithFaults(sync.faulty, fs, threads[t].path,
                                sync_file_body(handler, fs, threads[t].path, now))
       IN  /\ fs' = result.fs
           /\ last' = CallRecord(t, result)
           /\ failed' = IF result.raised THEN failed \cup {threads[t].id} ELSE failed
           /\ threads' = [threads EXCEPT ![t] = TaskDone(result)]
           /\ handler' = Finally(handler, result)
    /\ UNCHANGED <<main, fs0, now, evlog, calls, writes, ticks, sync>>

handle_delete_begin(t) == Begin(t, "handle_delete")

\* after handle_delete returns to on_moved, sync_file(event.dest_path) is
\* called when the destination string starts with the source_dir string
handle_delete_end(t) ==
    /\ threads[t].pc = "body"
    /\ threads[t].op = "handle_delete"
    /\ LET result == WithFaults(sync.faulty, fs, threads[t].path,
                                handle_delete_body(handler, fs, threads[t].path, now))
       IN  /\ fs' = result.fs
           /\ last' = CallRecord(t, result)
           /\ failed' = IF result.raised THEN failed \cup {threads[t].id} ELSE failed
           /\ threads' = [threads EXCEPT ![t] =
                IF /\ ~result.raised
                   /\ threads[t].moved_to # NoPath
                   /\ StartsWith(PathStr(threads[t].moved_to),
                                 PathStr(handler.source_dir))
                THEN [@ EXCEPT !.pc = "call", !.op = "sync_file",
                               !.path = threads[t].moved_to,
                               !.moved_to = NoPath, !.id = 0]
                ELSE TaskDone(result)]
           /\ handler' = Finally(handler, result)
    /\ UNCHANGED <<main, fs0, now, evlog, calls, writes, ticks, sync>>

Next ==
    \/ \E t \in Threads, p \in EventPaths : on_created(t, p, FALSE)
    \/ \E t \in Threads : on_created(t, EventDir, TRUE)
    \/ \E t \in Threads, p \in ModifiedPaths : on_modified(t, p, FALSE)
    \/ \E t \in Threads : on_modified(t, EventDir, TRUE)
    \/ \E t \in Threads, m \in Moves : on_moved(t, m[1], m[2], FALSE)
    \/ \E t \in Threads : on_moved(t, EventDir, <<H, S2>>, TRUE)
    \/ \E t \in Threads, p \in EventPaths : on_deleted(t, p, FALSE)
    \/ \E t \in Threads : on_deleted(t, EventDir, TRUE)
    \/ \E t \in Threads : sync_file_begin(t)
    \/ \E t \in Threads : sync_file_end(t)
    \/ \E t \in Threads : handle_delete_begin(t)
    \/ \E t \in Threads : handle_delete_end(t)

Spec == Init /\ [][Next]_vars

----------------------------------------------------------------------------
(* The two methods called directly, one call after the other: each action  *)
(* is the whole method, from is_syncing = True to the finally clause.      *)

Call(op, src_path, result) ==
    /\ sync.phase = "off"
    /\ Len(calls) < MaxCalls
    /\ \A t \in Threads : threads[t].pc = "idle"
    /\ calls' = Append(calls, [op |-> op, path |-> src_path, ev |-> 0, thread |-> 0])
    /\ fs' = result.fs
    /\ last' = [id |-> Len(calls) + 1, op |-> op, path |-> src_path, ev |-> 0,
                time |-> now, writes |-> writes, pre |-> fs,
                raised |-> result.raised]
    /\ failed' = IF result.raised THEN failed \cup {Len(calls) + 1} ELSE failed
    /\ handler' = Finally(handler, result)
    /\ UNCHANGED <<main, fs0, now, threads, evlog, writes, ticks, sync>>

sync_file(src_path) ==
    Call("sync_file", src_path, sync_file_body(handler, fs, src_path, now))

handle_delete(src_path) ==
    Call("handle_delete", src_path, handle_delete_body(handler, fs, src_path, now))

NextCalls ==
    \/ Tick
    \/ SrcWrite
    \/ \E p \in EventPaths : sync_file(p)
    \/ \E p \in EventPaths : handle_delete(p)

SpecCalls == InitCalls /\ [][NextCalls]_vars

----------------------------------------------------------------------------
(* The layers of the conflict policy: a handler is constructed from a      *)
(* global and a per-pair conflict_resolution mapping, each setting any     *)
(* subset of the four fields, and its methods are called.                  *)

\* the values the global layer sets, and those the sync pair sets
GlobalValues ==
    [deleted_files |-> "delete", modified_files |-> "keep_newest",
     trash_dir |-> <<<<"b">>>>, duplicate_format |-> PlainFormat]
PairValues ==
    [deleted_files |-> "keep", modified_files |-> "overwrite",
     trash_dir |-> <<<<"c">>>>,
     duplicate_format |-> <<"{original_name}", "-", "{timestamp}", "{ext}">>]

PolicyHandlers ==
    {SyncHandler(SourceRoot, DestRoot, <<>>,
                 Config(FALSE, TRUE, Layer(gf, GlobalValues), Layer(pf, PairValues)),
                 FALSE) :
        gf \in SUBSET PolicyFields, pf \in SUBSET PolicyFields}

InitPolicy ==
    /\ fs \in WatchFs
    /\ handler \in PolicyHandlers
    /\ InitCommon
    /\ main = NoMain
    /\ sync = NoSync

NextPolicy ==
    \/ \E p \in EventPaths : sync_file(p)
    \/ \E p \in EventPaths : handle_delete(p)

SpecPolicy == InitPolicy /\ [][NextPolicy]_vars

----------------------------------------------------------------------------
(* handle_delete over nested destination directories, some of which may    *)
(* not be removed.                                                         *)

J == <<"j">>
\* the source path and the destination path of k/j/a.t, and the source
\* path of k/o.t
SKJ == <<H, S, K, J, A>>
DKJ == <<M, D, K, J, A>>
SKO == <<H, S, K, OT>>

DeletePaths == {SA, SK, SKO, SKJ}

\* destination trees with the directories k and k/j and any of the files
\* a.t, k/a.t, k/o.t, k/j/a.t; k and k/j may be read-only
CleanupFs ==
    {[files |-> SourceFiles @@ [q \in held |-> File("Y", 0)],
      dirs |-> SourceDirs \cup {DestRoot, <<M, D, K>>, <<M, D, K, J>>},
      readonly |-> ro, unreadable |-> {}] :
        held \in SUBSET {DA, DK, DKO, DKJ},
        ro \in SUBSET {<<M, D, K>>, <<M, D, K, J>>}}

CleanupHandlers ==
    {h \in Handlers :
        /\ ~h.config.skip_hidden
        /\ h.exclude_patterns = <<>>
        /\ h.conflict_settings.modified_files = "keep_both"
        /\ h.conflict_settings.duplicate_format = DefaultFormat}

InitCleanup ==
    /\ fs \in CleanupFs
    /\ handler \in CleanupHandlers
    /\ InitCommon
    /\ main = NoMain
    /\ sync = NoSync

NextCleanup == \E p \in DeletePaths : handle_delete(p)

SpecCleanup == InitCleanup /\ [][NextCleanup]_vars

----------------------------------------------------------------------------
(* perform_initial_sync: the source walk, the pool of sync workers, the    *)
(* destination walk, the pool of delete workers.                           *)

\* the files os.walk(root) lists; with prune, directories whose name starts
\* with "." are removed from dirs and not descended into
Walk(f, root, prune) ==
    IF ~Exists(f, root) THEN {}
    ELSE {p \in DOMAIN f.files :
            /\ Len(p) > Len(root)
            /\ SubSeq(p, 1, Len(root)) = root
            /\ prune => \A i \in (Len(root) + 1)..(Len(p) - 1) :
                            ~StartsWith(p[i], <<".">>)}

\* destinations of the initial sync: no root yet; an empty root; a.t equal
\* to the source next to o.t, which the source does not have; an older a.t
\* next to o.t and k/o.t; a newer a.t; a.t equal to the source next to the
\* hidden .g/a.t
SyncDestStates ==
    {[files |-> <<>>, dirs |-> {}],
     [files |-> <<>>, dirs |-> {DestRoot}],
     [files |-> (DA :> File("X", 1)) @@ (DO :> File("Y", 0)), dirs |-> {DestRoot}],
     [files |-> (DA :> File("Y", 0)) @@ (DO :> File("Y", 0)) @@ (DKO :> File("Z", 0)),
      dirs |-> {DestRoot, <<M, D, K>>}],
     [files |-> (DA :> File("Y", 2)), dirs |-> {DestRoot}],
     [files |-> (DA :> File("X", 1)) @@ (DG :> File("Y", 0)),
      dirs |-> {DestRoot, <<M, D, G>>}]}

InitialSyncFs ==
    {[files |-> SourceFiles @@ d.files, dirs |-> SourceDirs \cup d.dirs,
      readonly |-> {}, unreadable |-> {}] :
        d \in SyncDestStates}

InitInitialSync ==
    /\ fs \in InitialSyncFs
    /\ handler \in InitHandlers
    /\ InitCommon
    /\ main = NoMain
    /\ sync = [NoSync EXCEPT !.phase = "start"]

AllIdle == \A t \in Threads : threads[t].pc = "idle"

\* the destination directory is created unless it exists or the run is dry
ensure_destination ==
    /\ sync.phase = "start"
    /\ fs' = IF ~Exists(fs, handler.destination_dir) /\ ~handler.dry_run
             THEN MakeDirs(fs, handler.destination_dir).fs
             ELSE fs
    /\ sync' = [sync EXCEPT !.phase = "scan_source"]
    /\ UNCHANGED <<main, fs0, now, handler, threads, evlog, calls, last, failed,
                   writes, ticks>>

\* first pass: the files to sync and their relative paths
scan_source ==
    /\ sync.phase = "scan_source"
    /\ LET walked == Walk(fs, handler.source_dir, handler.config.skip_hidden)
           found == {p \in walked : ~should_exclude(handler, p)}
       IN  sync' = [sync EXCEPT
                !.phase = "sync",
                !.source_walk = {RelPath(p, handler.source_dir) : p \in walked},
                !.files_to_sync = found,
                !.pending = found,
                !.source_files = {RelPath(p, handler.source_dir) : p \in found}]
    /\ UNCHANGED <<main, fs, fs0, now, handler, threads, evlog, calls, last, failed,
                   writes, ticks>>

\* a pool thread takes a submitted task
TakeTask(t, phase, task, op, src_path) ==
    /\ sync.phase = phase
    /\ threads[t].pc = "idle"
    /\ \A u \in 1..(t - 1) : threads[u].pc # "idle"
    /\ task \in sync.pending
    /\ sync' = [sync EXCEPT !.pending = @ \ {task}]
    /\ threads' = [threads EXCEPT ![t] =
            [pc |-> "call", op |-> op, path |-> src_path, moved_to |-> NoPath,
             ev |-> 0, id |-> 0]]
    /\ UNCHANGED <<main, fs, fs0, now, handler, evlog, calls, last, failed, writes, ticks>>

sync_worker(t, src_file) ==
    TakeTask(t, "sync", src_file, "sync_file", src_file)

\* a destination scan that does not wait for the pool of sync workers
scan_destination_without_wait ==
    /\ sync.phase = "sync"
    /\ LET walked == Walk(fs, handler.destination_dir, FALSE)
           check == {<<p, RelPath(p, handler.destination_dir)>> :
                        p \in {q \in walked :
                                /\ ~should_exclude(handler, q)
                                /\ RelPath(q, handler.destination_dir)
                                       \notin sync.source_files}}
       IN  sync' = [sync EXCEPT
                !.phase = "delete",
                !.dest_walk = {RelPath(q, handler.destination_dir) : q \in walked},
                !.dest_files_to_check = check,
                !.pending = check]
    /\ UNCHANGED <<main, fs, fs0, now, handler, threads, evlog, calls, last, failed,
                   writes, ticks>>

\* all sync tasks are complete; second pass: the destination files whose
\* relative path the first pass did not collect
scan_destination ==
    /\ sync.phase = "sync"
    /\ sync.pending = {}
    /\ AllIdle
    /\ LET walked == Walk(fs, handler.destination_dir, FALSE)
           check == {<<p, RelPath(p, handler.destination_dir)>> :
                        p \in {q \in walked :
                                /\ ~should_exclude(handler, q)
                                /\ RelPath(q, handler.destination_dir)
                                       \notin sync.source_files}}
       IN  sync' = [sync EXCEPT
                !.phase = "delete",
                !.dest_walk = {RelPath(q, handler.destination_dir) : q \in walked},
                !.dest_files_to_check = check,
                !.pending = check]
    /\ UNCHANGED <<main, fs, fs0, now, handler, threads, evlog, calls, last, failed,
                   writes, ticks>>

delete_worker(t, file_info) ==
    TakeTask(t, "delete", file_info, "handle_delete",
             Join(handler.source_dir, file_info[2]))

initial_sync_completed ==
    /\ sync.phase = "delete"
    /\ sync.pending = {}
    /\ AllIdle
    /\ sync' = [sync EXCEPT !.phase = "done"]
    /\ UNCHANGED <<main, fs, fs0, now, handler, threads, evlog, calls, last, failed,
                   writes, ticks>>

NextInitialSync ==
    \/ Tick
    \/ ensure_destination
    \/ scan_source
    \/ \E t \in Threads : \E p \in sync.pending : sync_worker(t, p)
    \/ \E t \in Threads : sync_file_begin(t)
    \/ \E t \in Threads : sync_file_end(t)
    \/ scan_destination
    \/ \E t \in Threads : \E i \in sync.pending : delete_worker(t, i)
    \/ \E t \in Threads : handle_delete_begin(t)
    \/ \E t \in Threads : handle_delete_end(t)
    \/ initial_sync_completed

SpecInitialSync == InitInitialSync /\ [][NextInitialSync]_vars

----------------------------------------------------------------------------
(* perform_initial_sync with failing file operations: the calls for any    *)
(* subset of the paths raise.                                              *)

\* the source path of the destination file o.t
SO == <<H, S, OT>>

FaultyPaths == {SA, SK, SO}

\* handlers whose orphan pass sees the destination files: skip_hidden
\* disabled, no pattern
FaultHandlers ==
    {h \in Handlers :
        /\ ~h.config.skip_hidden
        /\ h.exclude_patterns = <<>>
        /\ ~h.dry_run
        /\ h.config.cleanup_empty_dirs
        /\ h.conflict_settings.deleted_files \in {"trash", "delete"}
        /\ h.conflict_settings.modified_files \in {"keep_both", "overwrite"}
        /\ h.conflict_settings.duplicate_format = DefaultFormat}

\* the destination that holds a.t and o.t, and the one without a root
FaultFs ==
    {f \in InitialSyncFs :
        \/ DO \in DOMAIN f.files /\ DKO \notin DOMAIN f.files
        \/ ~Exists(f, DestRoot)}

InitFaults ==
    /\ fs \in FaultFs
    /\ handler \in FaultHandlers
    /\ InitCommon
    /\ main = NoMain
    /\ \E faulty \in SUBSET FaultyPaths :
          sync = [NoSync EXCEPT !.phase = "start", !.faulty = faulty]

\* the steps of perform_initial_sync, the clock standing still
NextFaults ==
    \/ ensure_destination
    \/ scan_source
    \/ \E t \in Threads : \E p \in sync.pending : sync_worker(t, p)
    \/ \E t \in Threads : sync_file_begin(t)
    \/ \E t \in Threads : sync_file_end(t)
    \/ scan_destination
    \/ \E t \in Threads : \E i \in sync.pending : delete_worker(t, i)
    \/ \E t \in Threads : handle_delete_begin(t)
    \/ \E t \in Threads : handle_delete_end(t)
    \/ initial_sync_completed

SpecFaults == InitFaults /\ [][NextFaults]_vars

----------------------------------------------------------------------------
(* main: the control loop.  It polls the configured devices in order; for  *)
(* a mounted device it runs perform_initial_sync for each sync pair and    *)
(* starts an observer; then it sleeps and polls while any device of the    *)
(* observers list is connected.  Here perform_initial_sync is one step     *)
(* that records the pair; what it does to the files is the subject of the  *)
(* specifications above.                                                   *)

\* config['ssd_configs']: two devices, with two sync pairs and with one
ssd_configs ==
    <<[uuid |-> "A", sync_pairs |-> <<1, 2>>],
      [uuid |-> "B", sync_pairs |-> <<3>>]>>

MainUnchanged ==
    UNCHANGED <<fs, fs0, now, handler, threads, evlog, calls, last, failed,
                writes, ticks, sync>>

\* the device is plugged in or pulled out
mount(u) ==
    /\ main.pc \notin {"off", "exited"}
    /\ main.plugs < MaxPlugs
    /\ u \notin main.mounted
    /\ main' = [main EXCEPT !.mounted = @ \cup {u}, !.plugs = @ + 1]
    /\ MainUnchanged

unmount(u) ==
    /\ main.pc \notin {"off", "exited"}
    /\ main.plugs < MaxPlugs
    /\ u \in main.mounted
    /\ main' = [main EXCEPT !.mounted = @ \ {u}, !.plugs = @ + 1]
    /\ MainUnchanged

\* get_mount_point(uuid): the mount point, or None when the device is absent
get_mount_point(uuid) == uuid \in main.mounted

is_ssd_connected(uuid) == get_mount_point(uuid)

\* one round of the for loop over the devices: the device is mounted and
\* its pairs are taken in turn, or the loop goes to the next device
poll_device ==
    /\ main.pc = "for_device"
    /\ main.d <= Len(ssd_configs)
    /\ main' = IF /\ get_mount_point(ssd_configs[main.d].uuid)
                  /\ ssd_configs[main.d].sync_pairs # <<>>
               THEN [main EXCEPT !.pc = "sync", !.p = 1]
               ELSE [main EXCEPT !.d = @ + 1]
    /\ MainUnchanged

\* perform_initial_sync for the pair returns
initial_sync_of_pair ==
    /\ main.pc = "sync"
    /\ main' = [main EXCEPT
            !.pc = "start",
            !.synced = @ \cup {ssd_configs[main.d].sync_pairs[main.p]}]
    /\ MainUnchanged

\* the handler and the observer of the pair are created, and the observer
\* thread is started
observer_start ==
    /\ main.pc = "start"
    /\ main' = [main EXCEPT
            !.pc = "append",
            !.created = @ + 1,
            !.live = @ \cup {[id |-> main.created + 1,
                              uuid |-> ssd_configs[main.d].uuid,
                              pair |-> ssd_configs[main.d].sync_pairs[main.p],
                              state |-> "running"]}]
    /\ MainUnchanged

\* observers.append((observer, ssd_uuid)), and on to the next pair or the
\* next device
observers_append ==
    /\ main.pc = "append"
    /\ LET listed == Append(main.observers,
                            [id |-> main.created,
                             uuid |-> ssd_configs[main.d].uuid])
       IN  main' = IF main.p < Len(ssd_configs[main.d].sync_pairs)
                   THEN [main EXCEPT !.observers = listed, !.pc = "sync",
                                     !.p = @ + 1]
                   ELSE [main EXCEPT !.observers = listed, !.pc = "for_device",
                                     !.d = @ + 1]
    /\ MainUnchanged

\* after the for loop: sleep when there is no observer, else the watch loop
devices_polled ==
    /\ main.pc = "for_device"
    /\ main.d > Len(ssd_configs)
    /\ main' = IF main.observers = <<>>
               THEN [main EXCEPT !.pc = "idle_sleep"]
               ELSE [main EXCEPT !.pc = "any", !.j = 1, !.detected = {}]
    /\ MainUnchanged

\* time.sleep(5), and the next round of while True
idle_sleep ==
    /\ main.pc = "idle_sleep"
    /\ main' = [main EXCEPT !.pc = "for_device", !.d = 1]
    /\ MainUnchanged

\* any(is_ssd_connected(uuid) for _, uuid in observers), one call at a
\* time: the first connected device ends it with True, the end of the list
\* with False
any_connected ==
    /\ main.pc = "any"
    /\ main' = IF main.j > Len(main.observers)
               THEN [main EXCEPT !.pc = "inner_stop", !.j = 1]
               ELSE IF is_ssd_connected(main.observers[main.j].uuid)
               THEN [main EXCEPT !.pc = "watch_sleep"]
               ELSE [main EXCEPT !.j = @ + 1,
                        !.detected = @ \cup {main.observers[main.j].uuid}]
    /\ MainUnchanged

\* time.sleep(1), and the next evaluation of the while condition
watch_sleep ==
    /\ main.pc = "watch_sleep"
    /\ main' = [main EXCEPT !.pc = "any", !.j = 1, !.detected = {}]
    /\ MainUnchanged

\* observer.stop() for the j-th entry of observers, in either finally
observer_stop ==
    /\ main.pc \in {"inner_stop", "outer_stop"}
    /\ main.j <= Len(main.observers)
    /\ main' = [main EXCEPT
            !.pc = IF main.pc = "inner_stop" THEN "inner_join" ELSE "outer_join",
            !.live = {IF o.id = main.observers[main.j].id
                      THEN [o EXCEPT !.state = "stopped"] ELSE o : o \in @}]
    /\ MainUnchanged

\* observer.join(): the thread has ended
observer_join ==
    /\ main.pc \in {"inner_join", "outer_join"}
    /\ main' = [main EXCEPT
            !.pc = IF main.pc = "inner_join" THEN "inner_stop" ELSE "outer_stop",
            !.j = @ + 1,
            !.live = {o \in @ : o.id # main.observers[main.j].id}]
    /\ MainUnchanged

\* the end of the inner finally: observers.clear(); a KeyboardInterrupt
\* goes on to the outer handlers, otherwise while True goes round
observers_clear ==
    /\ main.pc = "inner_stop"
    /\ main.j > Len(main.observers)
    /\ main' = IF main.raising
               THEN [main EXCEPT !.observers = <<>>, !.pc = "outer_stop", !.j = 1]
               ELSE [main EXCEPT !.observers = <<>>, !.pc = "for_device", !.d = 1]
    /\ MainUnchanged

\* the end of the outer finally: sys.exit(0)
exit ==
    /\ main.pc = "outer_stop"
    /\ main.j > Len(main.observers)
    /\ main' = [main EXCEPT !.pc = "exited"]
    /\ MainUnchanged

\* the positions of the main thread inside the inner try statement
InWatchLoop == main.pc \in {"any", "watch_sleep"}

\* KeyboardInterrupt is raised in the main thread, between any two
\* statements of the loop: in the watch loop it runs the inner finally
\* first, elsewhere (the inner finally included) it goes to the outer one
KeyboardInterrupt ==
    /\ ~main.interrupted
    /\ main.pc \in {"for_device", "sync", "start", "append", "idle_sleep",
                    "any", "watch_sleep", "inner_stop", "inner_join"}
    /\ main' = [main EXCEPT
            !.interrupted = TRUE,
            !.raising = TRUE,
            !.j = 1,
            !.pc = IF InWatchLoop THEN "inner_stop" ELSE "outer_stop"]
    /\ MainUnchanged

InitMain ==
    /\ fs \in WatchFs
    /\ handler \in WatchHandlers
    /\ InitCommon
    /\ sync = NoSync
    /\ main = [NoMain EXCEPT !.pc = "for_device", !.d = 1]

\* the steps of the main thread
MainThread ==
    \/ poll_device
    \/ initial_sync_of_pair
    \/ observer_start
    \/ observers_append
    \/ devices_polled
    \/ idle_sleep
    \/ any_connected
    \/ watch_sleep
    \/ observer_stop
    \/ observer_join
    \/ observers_clear
    \/ exit

NextMain ==
    \/ MainThread
    \/ KeyboardInterrupt
    \/ \E i \in 1..Len(ssd_configs) : mount(ssd_configs[i].uuid)
    \/ \E i \in 1..Len(ssd_configs) : unmount(ssd_configs[i].uuid)

\* the main thread keeps running: a step it can take is taken
SpecMain == InitMain /\ [][NextMain]_vars /\ WF_vars(MainThread)

----------------------------------------------------------------------------
(* perform_initial_sync over a destination that an earlier pass left: the  *)
(* trash directory holds a file the earlier pass moved there.              *)

\* /m/d/.trash/o_0.t: the destination file o.t, trashed in second 0
TrashedO == Join(Join(DestRoot, TrashDir), <<<<"o", "_", "0", ".", "t">>>>)

\* the destination holds a.t, equal to the source or older and different,
\* and the trashed file
ReconcileFs ==
    {[files |-> SourceFiles @@ (DA :> a) @@ (TrashedO :> File("Y", 0)),
      dirs |-> SourceDirs \cup {DestRoot, Join(DestRoot, TrashDir)},
      readonly |-> {}, unreadable |-> {}] :
        a \in {File("X", 1), File("Y", 0)}}

InitReconcile ==
    /\ fs \in ReconcileFs
    /\ handler \in InitHandlers
    /\ InitCommon
    /\ main = NoMain
    /\ sync = [NoSync EXCEPT !.phase = "start"]

SpecReconcile == InitReconcile /\ [][NextInitialSync]_vars

----------------------------------------------------------------------------
(* The watcher over files that cannot be read: open or read raises OSError *)
(* for the source file a.t, for its destination counterpart, or for both;  *)
(* the file operations of the calls for k/a.t fail as well.                *)

UnreadablePaths == {SA, DA}

\* a destination that holds a.t, different from the source, and k/a.t,
\* equal to the source
UnreadableFs ==
    {[files |-> SourceFiles @@ (DA :> File("Y", 0)) @@ (DK :> File("X", 1)),
      dirs |-> SourceDirs \cup {DestRoot, <<M, D, K>>},
      readonly |-> {}, unreadable |-> u] :
        u \in SUBSET UnreadablePaths}

\* every deleted_files policy and every modified_files policy (sync_file
\* reads the one, handle_delete the other, so they vary together), with
\* and without dry-run, hidden files skipped
UnreadableHandlers ==
    {h \in InitHandlers :
        /\ h.config.skip_hidden
        /\ h.config.cleanup_empty_dirs
        /\ h.conflict_settings.duplicate_format = DefaultFormat
        /\ <<h.conflict_settings.deleted_files,
              h.conflict_settings.modified_files>>
                \in {<<"trash", "keep_both">>, <<"delete", "keep_newest">>,
                     <<"keep", "overwrite">>}}

InitUnreadable ==
    /\ fs \in UnreadableFs
    /\ handler \in UnreadableHandlers
    /\ InitCommon
    /\ main = NoMain
    /\ sync = [NoSync EXCEPT !.faulty = {SK}]

\* created and deleted notifications for the files, and the calls they lead to
NextUnreadable ==
    \/ \E t \in Threads, p \in EventPaths : on_created(t, p, FALSE)
    \/ \E t \in Threads, p \in EventPaths : on_deleted(t, p, FALSE)
    \/ \E t \in Threads : sync_file_begin(t)
    \/ \E t \in Threads : sync_file_end(t)
    \/ \E t \in Threads : handle_delete_begin(t)
    \/ \E t \in Threads : handle_delete_end(t)

SpecUnreadable == InitUnreadable /\ [][NextUnreadable]_vars

----------------------------------------------------------------------------
(* Vocabulary of the properties.                                           *)

\* p lies under root as a path: root's components are a proper prefix of p's
IsUnder(p, root) ==
    /\ Len(p) > Len(root)
    /\ SubSeq(p, 1, Len(root)) = root

\* the destination tree of a filesystem: the files and directories at or
\* under the destination root
DestFiles(f) == {p \in DOMAIN f.files : IsUnder(p, DestRoot)}
DestTree(f) ==
    [files |-> [p \in DestFiles(f) |-> f.files[p]],
     dirs |-> {d \in f.dirs : d = DestRoot \/ IsUnder(d, DestRoot)}]

\* this step runs the body of a call of op
Ran(op) == last'.id # last.id /\ last'.op = op

\* the call that ran last directly follows a call of the same method on the
\* same path, with no write to the source in between
Repeats ==
    /\ last.op = last'.op
    /\ last.path = last'.path
    /\ last.id + 1 = last'.id
    /\ last.writes = last'.writes

\* in filesystem f the destination counterpart of src_path is a file whose
\* content differs from the source file's
Divergent(f, src_path) ==
    /\ IsFile(f, src_path)
    /\ IsFile(f, dest_path_of(handler, src_path))
    /\ f.files[Normalize(dest_path_of(handler, src_path))].content
           # f.files[src_path].content

\* the seconds of the model's clock
Seconds == 0..((StartTime + MaxTicks) \div TicksPerSecond)

----------------------------------------------------------------------------
(* C1.  With dry_run enabled the destination tree, root and trash          *)
(* directory included, stays what it was at the start, whatever calls are  *)
(* made.                                                                   *)
C1_DryRunLeavesDestination ==
    handler.dry_run => DestTree(fs) = DestTree(fs0)

(* C2.  Under keep_both, outside dry-run, a sync_file call on a            *)
(* non-excluded source file whose destination differs keeps every          *)
(* destination file with its bytes and adds one file, new to the           *)
(* destination, that holds the source's content.                           *)
C2_KeepBothAddsAndKeeps ==
    [][(/\ Ran("sync_file")
        /\ handler.conflict_settings.modified_files = "keep_both"
        /\ ~handler.dry_run
        /\ ~should_exclude(handler, last'.path)
        /\ Divergent(fs, last'.path))
       => /\ \A q \in DestFiles(fs) :
                q \in DestFiles(fs') /\ fs'.files[q] = fs.files[q]
          /\ \E q \in DestFiles(fs') \ DestFiles(fs) :
                fs'.files[q].content = fs.files[last'.path].content]_vars

(* C5.  A sync_file call that directly repeats a sync_file call on the     *)
(* same path, the source unchanged in between, leaves the destination      *)
(* tree as the first call left it.                                         *)
C5_SecondSyncWritesNothing ==
    [][(Ran("sync_file") /\ Repeats) => DestTree(fs') = DestTree(fs)]_vars

(* C6.  Under keep_newest, outside dry-run, a sync_file call on a          *)
(* non-excluded source file whose destination differs makes the            *)
(* destination file equal to the source when the source's modification     *)
(* time is strictly greater, and changes nothing otherwise.                *)
C6_KeepNewest ==
    [][(/\ Ran("sync_file")
        /\ handler.conflict_settings.modified_files = "keep_newest"
        /\ ~handler.dry_run
        /\ ~should_exclude(handler, last'.path)
        /\ Divergent(fs, last'.path))
       => LET src == last'.path
              dst == Normalize(dest_path_of(handler, src))
          IN  IF fs.files[src].mtime > fs.files[dst].mtime
              THEN /\ fs'.files = [fs.files EXCEPT ![dst] = fs.files[src]]
                   /\ fs'.dirs = fs.dirs
              ELSE fs' = fs]_vars

\* a keep_newest call has replaced an older, different destination file
C6_Witness ==
    /\ last.op = "sync_file"
    /\ handler.conflict_settings.modified_files = "keep_newest"
    /\ ~handler.dry_run
    /\ ~should_exclude(handler, last.path)
    /\ Divergent(last.pre, last.path)
    /\ last.pre.files[last.path].mtime
           > last.pre.files[Normalize(dest_path_of(handler, last.path))].mtime
    /\ fs.files[Normalize(dest_path_of(handler, last.path))].content
           = last.pre.files[last.path].content

\* the place the trash policy names for the file at rel under the
\* destination root: <destination_root>/<trash_dir>/<stem>_<timestamp><ext>
TrashPlace(dst, t) ==
    DestRoot \o handler.conflict_settings.trash_dir
        \o << SplitExt(BaseName(dst))[1] \o <<"_">> \o Timestamp(t)
                 \o SplitExt(BaseName(dst))[2] >>

(* C7.  Under the trash policy, outside dry-run, handle_delete for a       *)
(* source path whose destination counterpart exists removes the file from  *)
(* its place and puts its content at                                       *)
(* <destination_root>/<trash_dir>/<stem>_<timestamp><ext>; the files at    *)
(* other places stay as they are.                                          *)
C7_TrashMovesTheFile ==
    [][(/\ Ran("handle_delete")
        /\ handler.conflict_settings.deleted_files = "trash"
        /\ ~handler.dry_run
        /\ IsFile(fs, dest_path_of(handler, last'.path)))
       => LET dst == Normalize(dest_path_of(handler, last'.path))
              place == TrashPlace(dst, now)
          IN  /\ dst \notin DOMAIN fs'.files
              /\ place \in DOMAIN fs'.files
              /\ fs'.files[place] = fs.files[dst]
              /\ \A q \in (DOMAIN fs.files) \ {dst, place} :
                    q \in DOMAIN fs'.files /\ fs'.files[q] = fs.files[q]
              /\ DOMAIN fs'.files \subseteq (DOMAIN fs.files) \cup {place}]_vars

\* a destination file has been moved to the trash
C7_Witness ==
    /\ last.op = "handle_delete"
    /\ handler.conflict_settings.deleted_files = "trash"
    /\ ~handler.dry_run
    /\ IsFile(last.pre, dest_path_of(handler, last.path))
    /\ ~IsFile(fs, dest_path_of(handler, last.path))
    /\ TrashPlace(dest_path_of(handler, last.path), last.time) \in DOMAIN fs.files

(* C8.  handle_delete changes nothing when the destination counterpart is  *)
(* absent, and a handle_delete that directly repeats a handle_delete of    *)
(* the same path leaves the destination tree as the first left it, under   *)
(* each of the policies trash, delete and keep.                            *)
C8_DeleteIsIdempotent ==
    [][/\ (Ran("handle_delete") /\ ~Exists(fs, dest_path_of(handler, last'.path)))
            => fs' = fs
       /\ (Ran("handle_delete") /\ Repeats) => DestTree(fs') = DestTree(fs)]_vars

\* the same deletion was delivered twice, and the first one trashed or
\* removed the destination file
C8_Witness ==
    /\ Len(calls) = 2
    /\ calls[1].op = "handle_delete"
    /\ calls[2] = calls[1]
    /\ last.id = 2
    /\ ~handler.dry_run
    /\ handler.conflict_settings.deleted_files \in {"trash", "delete"}
    /\ IsFile(fs0, dest_path_of(handler, last.path))
    /\ ~IsFile(last.pre, dest_path_of(handler, last.path))

----------------------------------------------------------------------------
(* Properties of the watcher callbacks.                                    *)

\* the calls made for the e-th notification, in order
CallsOf(e) == SelectSeq(calls, LAMBDA c : c.ev = e)

\* no thread is still handling the e-th notification
Handled(e) == \A t \in Threads : threads[t].ev # e

\* the e-th notification was a file event that arrived with the guard clear
Accepted(e) == ~evlog[e].is_directory /\ ~evlog[e].guard

(* C9.  For a file move handled while the guard is clear,                  *)
(* handle_delete(old_path) is called first, and sync_file(new_path) is     *)
(* called after it if and only if new_path lies under the source root as   *)
(* a path; a move to a sibling directory whose name starts with the        *)
(* root's name is a deletion only.                                         *)
C9_MoveSyncsOnlyInsideTheRoot ==
    \A e \in 1..Len(evlog) :
        (evlog[e].kind = "moved" /\ Accepted(e))
        => LET mine == CallsOf(e)
               inside == IsUnder(evlog[e].dest_path, handler.source_dir)
           IN  /\ Len(mine) <= 2
               /\ Len(mine) >= 1 =>
                    /\ mine[1].op = "handle_delete"
                    /\ mine[1].path = evlog[e].src_path
               /\ Len(mine) = 2 =>
                    /\ mine[2].op = "sync_file"
                    /\ mine[2].path = evlog[e].dest_path
                    /\ inside
               /\ (Handled(e) /\ inside) => Len(mine) = 2

(* C10.  A notification that is a directory event, or that arrives while   *)
(* is_syncing is set, causes no call and no filesystem change; a file      *)
(* event that arrives with the guard clear leads to sync_file(src_path)    *)
(* when created or modified and to handle_delete(src_path) when deleted    *)
(* or moved, and every call made for a notification is one of these.       *)
C10_IgnoredEventsDoNothing ==
    /\ [][Len(evlog') > Len(evlog)
            => LET e == evlog'[Len(evlog')]
                   t == CHOOSE u \in Threads :
                            threads[u].pc = "idle"
                            /\ \A v \in 1..(u - 1) : threads[v].pc # "idle"
               IN  IF e.is_directory \/ handler.is_syncing
                   THEN /\ threads' = threads
                        /\ calls' = calls
                        /\ fs' = fs
                        /\ handler' = handler
                   ELSE /\ threads'[t].pc = "call"
                        /\ threads'[t].path = e.src_path
                        /\ threads'[t].op =
                              IF e.kind \in {"created", "modified"}
                              THEN "sync_file" ELSE "handle_delete"]_vars
    /\ [](\A i \in 1..Len(calls) :
            LET e == evlog[calls[i].ev]
            IN  /\ ~e.is_directory
                /\ ~e.guard
                /\ \/ e.kind \in {"created", "modified"}
                      /\ calls[i].op = "sync_file" /\ calls[i].path = e.src_path
                   \/ e.kind \in {"deleted", "moved"}
                      /\ calls[i].op = "handle_delete" /\ calls[i].path = e.src_path
                   \/ e.kind = "moved"
                      /\ calls[i].op = "sync_file" /\ calls[i].path = e.dest_path)
    /\ [](\A e \in 1..Len(evlog) :
            (Handled(e) /\ Accepted(e) /\ evlog[e].kind # "moved")
                => Len(CallsOf(e)) = 1)

\* a file event arrived while another call was in flight and was dropped,
\* and a directory event was dropped too
C10_Witness ==
    /\ Len(evlog) = 2
    /\ ~evlog[1].is_directory /\ ~evlog[1].guard
    /\ ~evlog[2].is_directory /\ evlog[2].guard
    /\ Handled(1) /\ Handled(2)
    /\ Len(CallsOf(1)) >= 1
    /\ CallsOf(2) = <<>>

----------------------------------------------------------------------------
(* Properties of perform_initial_sync.                                     *)

\* the non-excluded files of the source tree
SyncedSources ==
    {p \in DOMAIN fs.files :
        IsUnder(p, handler.source_dir) /\ ~should_exclude(handler, p)}

\* the versioned duplicates of a destination path: the original name plus
\* a timestamp, in the same directory
VersionsOf(dst) ==
    {Append(DirName(dst),
            SplitExt(BaseName(dst))[1] \o <<"_">> \o <<Digit(sec)>>
                \o SplitExt(BaseName(dst))[2]) : sec \in Seconds}

(* C3.  After a completed perform_initial_sync, outside dry-run and with   *)
(* no failed call, every non-excluded source file has in the destination   *)
(* a file at the same relative path with the same content, or a versioned  *)
(* duplicate with the source's content; under keep_both the destination    *)
(* file that was there keeps its content.                                  *)
C3_SourceFilesAreMirrored ==
    (sync.phase = "done" /\ ~handler.dry_run /\ failed = {})
    => \A src \in SyncedSources :
         LET dst == Normalize(dest_path_of(handler, src))
         IN  /\ \/ /\ dst \in DOMAIN fs.files
                   /\ fs.files[dst].content = fs.files[src].content
                \/ \E v \in VersionsOf(dst) :
                      /\ v \in DOMAIN fs.files
                      /\ fs.files[v].content = fs.files[src].content
             /\ (/\ handler.conflict_settings.modified_files = "keep_both"
                 /\ dst \in DOMAIN fs0.files)
                  => /\ dst \in DOMAIN fs.files
                     /\ fs.files[dst] = fs0.files[dst]

\* the handle_delete calls made for the source path of relative path r
DeleteCalls(r) ==
    {i \in 1..Len(calls) :
        /\ calls[i].op = "handle_delete"
        /\ calls[i].path = Join(handler.source_dir, r)}

(* C4.  In a perform_initial_sync run, every file the destination walk     *)
(* lists whose relative path is not excluded and was not collected by the  *)
(* source walk gets exactly one handle_delete call with the corresponding  *)
(* source path, with skip_hidden enabled as well as disabled.              *)
C4_OrphansAreDeletedOnce ==
    sync.phase = "done"
    => \A r \in sync.dest_walk :
         (/\ ~should_exclude(handler, Join(handler.source_dir, r))
          /\ r \notin sync.source_files)
            => Cardinality(DeleteCalls(r)) = 1

(* C11.  The destination scan and the source scan take the same exclusion  *)
(* decision for the same relative path: for every file the destination     *)
(* walk lists, should_exclude of its destination path equals               *)
(* should_exclude of the source path with that relative path.              *)
C11_SameExclusionInBothTrees ==
    sync.phase \in {"delete", "done"}
    => \A r \in sync.dest_walk :
         should_exclude(handler, Join(handler.destination_dir, r))
             = should_exclude(handler, Join(handler.source_dir, r))

\* the relative path r names a file under a hidden directory
UnderHiddenDir(r) == \E i \in 1..(Len(r) - 1) : StartsWith(r[i], <<".">>)

(* C12.  With skip_hidden enabled, in perform_initial_sync the source walk *)
(* lists no file under a hidden directory, no such file is in              *)
(* source_files, and no sync_file or handle_delete call is made for the    *)
(* relative path of such a file, of the source tree or of the destination  *)
(* tree.                                                                   *)
C12_HiddenDirectoriesAreSkipped ==
    handler.config.skip_hidden
    => /\ \A r \in sync.source_walk \cup sync.source_files : ~UnderHiddenDir(r)
       /\ \A i \in 1..Len(calls) :
             ~UnderHiddenDir(RelPath(calls[i].path, handler.source_dir))

\* a pass is complete that made calls, over a source and a destination
\* that both hold a file under the hidden directory .g
C12_Witness ==
    /\ sync.phase = "done"
    /\ handler.config.skip_hidden
    /\ SG \in DOMAIN fs0.files
    /\ DG \in DOMAIN fs0.files
    /\ sync.dest_walk # {}
    /\ Len(calls) > 0

----------------------------------------------------------------------------
(* Properties of the conflict policy.                                      *)

\* the value the three layers give field k: the pair's if the pair sets
\* it, else the global one if set, else the default
LayeredValue(k) ==
    LET global == handler.config.conflict_resolution
        pair == handler.config.sync_pair_config.conflict_resolution
    IN  IF k \in DOMAIN pair THEN pair[k]
        ELSE IF k \in DOMAIN global THEN global[k]
        ELSE CASE k = "deleted_files" -> "trash"
               [] k = "modified_files" -> "keep_both"
               [] k = "trash_dir" -> <<<<".", "t", "r", "a", "s", "h">>>>
               [] k = "duplicate_format" ->
                    <<"{original_name}", "_", "{timestamp}", "{ext}">>

(* C13.  Each of the four fields of a handler's conflict policy has the    *)
(* per-pair value if the pair sets it, else the global value if set, else  *)
(* the default (trash, keep_both, '.trash',                                *)
(* '{original_name}_{timestamp}{ext}'), and no sync_file or handle_delete  *)
(* call changes the policy.                                                *)
C13_PolicyIsTheLayeredMerge ==
    /\ [](\A k \in PolicyFields :
            handler.conflict_settings[k] = LayeredValue(k))
    /\ [][handler'.conflict_settings = handler.conflict_settings]_vars

\* two calls have run on a handler whose pair overrides a field the global
\* layer sets too, whose global layer alone sets another, and that has a
\* field left to the default
C13_Witness ==
    /\ Len(calls) = 2
    /\ last.id = 2
    /\ DOMAIN handler.config.conflict_resolution
          = {"deleted_files", "modified_files"}
    /\ DOMAIN handler.config.sync_pair_config.conflict_resolution
          = {"deleted_files", "trash_dir"}
    /\ handler.conflict_settings.deleted_files = "keep"
    /\ handler.conflict_settings.modified_files = "keep_newest"

----------------------------------------------------------------------------
(* Properties of perform_initial_sync with failing calls.                  *)

\* some call of op was entered for src_path
Called(op, src_path) ==
    \E i \in 1..Len(calls) : calls[i].op = op /\ calls[i].path = src_path

\* perform_initial_sync can take a step: the main thread is before the
\* pools, or a pool thread is in a call, or a task waits for a free thread,
\* or every task is complete and the main thread leaves the pool
CanStep ==
    \/ sync.phase \in {"start", "scan_source"}
    \/ \E t \in Threads : threads[t].pc \in {"call", "body"}
    \/ /\ sync.phase \in {"sync", "delete"}
       /\ sync.pending # {}
       /\ \E t \in Threads : threads[t].pc = "idle"
    \/ /\ sync.phase \in {"sync", "delete"}
       /\ sync.pending = {}
       /\ AllIdle

(* C14.  Whatever subset of the calls raises: a call that raises leaves    *)
(* the tasks still waiting and the position of perform_initial_sync as     *)
(* they were and its thread free for the next task; until the pass is      *)
(* complete it can always take a step; and when it is complete, sync_file  *)
(* was called for every collected source file and handle_delete for every  *)
(* orphan the destination scan found.                                      *)
C14_FailuresAreIsolated ==
    /\ [][(last'.id # last.id /\ last'.raised)
            => /\ sync' = sync
               /\ \A t \in Threads :
                     threads[t].id = last'.id => threads'[t] = Idle]_vars
    /\ [](sync.phase # "done" => CanStep)
    /\ [](sync.phase = "done"
            => /\ \A p \in sync.files_to_sync : Called("sync_file", p)
               /\ \A i \in sync.dest_files_to_check :
                     Called("handle_delete", Join(handler.source_dir, i[2])))

\* the pass is complete, a sync_file call and a handle_delete call raised,
\* and another sync_file call copied its file
C14_Witness ==
    /\ sync.phase = "done"
    /\ \E i \in failed : calls[i].op = "sync_file"
    /\ \E i \in failed : calls[i].op = "handle_delete"
    /\ \E i \in (1..Len(calls)) \ failed :
          /\ calls[i].op = "sync_file"
          /\ IsFile(fs, dest_path_of(handler, calls[i].path))
          /\ ~IsFile(fs0, dest_path_of(handler, calls[i].path))

----------------------------------------------------------------------------
(* Properties of the control loop.                                         *)

\* the observer threads of sync pair q that are running
Running(q) == {o \in main.live : o.pair = q /\ o.state = "running"}

\* every sync pair of the i-th device had its initial sync and has one
\* running observer
Watched(i) ==
    \A k \in 1..Len(ssd_configs[i].sync_pairs) :
        /\ ssd_configs[i].sync_pairs[k] \in main.synced
        /\ Cardinality(Running(ssd_configs[i].sync_pairs[k])) = 1

(* C15.  When the process exits after a KeyboardInterrupt, every observer  *)
(* thread that was started has been stopped and joined.                    *)
C15_InterruptStopsEveryObserver ==
    main.pc = "exited" => main.live = {}

(* C16.  When the watch loop goes back to sleep after a poll that found a  *)
(* device of the observers list removed, and the device is still absent,   *)
(* no observer of that device is left alive, whether or not another device *)
(* is still connected.                                                     *)
C16_RemovedDeviceIsUnwatched ==
    main.pc = "watch_sleep"
    => \A o \in main.live :
         ~(o.uuid \in main.detected /\ o.uuid \notin main.mounted)

(* C17.  A configured device that is connected and stays connected         *)
(* eventually has had the initial sync of each of its sync pairs and has   *)
(* one running observer per pair, unless the process is interrupted, also  *)
(* when another device is being watched; and no sync pair ever has more    *)
(* than one running observer.                                              *)
C17_ConnectedDevicesGetWatched ==
    /\ \A i \in 1..Len(ssd_configs) :
          (ssd_configs[i].uuid \in main.mounted)
              ~> \/ ssd_configs[i].uuid \notin main.mounted
                 \/ Watched(i)
                 \/ main.interrupted
    /\ [](\A i \in 1..Len(ssd_configs) :
            \A k \in 1..Len(ssd_configs[i].sync_pairs) :
                Cardinality(Running(ssd_configs[i].sync_pairs[k])) <= 1)

----------------------------------------------------------------------------
(* Order of the passes of perform_initial_sync.                            *)

\* thread t is inside a call of op, or about to enter it
InCall(t, op) == threads[t].pc \in {"call", "body"} /\ threads[t].op = op

(* C18.  In perform_initial_sync the destination scan runs only when the   *)
(* source walk is over, source_files holds the relative path of every      *)
(* non-excluded source file and every sync_file task has finished; and no  *)
(* thread is in handle_delete while another is in sync_file.               *)
C18_OrphanPassFollowsSourcePass ==
    /\ [][sync'.phase = "delete" /\ sync.phase # "delete"
            => /\ sync.phase = "sync"
               /\ sync.pending = {}
               /\ \A t \in Threads : threads[t].pc = "idle"
               /\ sync.source_files =
                     {RelPath(q, handler.source_dir) :
                        q \in {r \in Walk(fs, handler.source_dir,
                                           handler.config.skip_hidden) :
                                  ~should_exclude(handler, r)}}
               /\ \A q \in sync.files_to_sync :
                     \E i \in 1..Len(calls) :
                        /\ calls[i].op = "sync_file"
                        /\ calls[i].path = q
                        /\ \A t \in Threads : threads[t].id # i]_vars
    /\ [](sync.phase \in {"start", "scan_source", "sync"}
            => sync.dest_walk = {} /\ sync.dest_files_to_check = {})
    /\ [](\A t, u \in Threads :
            ~(InCall(t, "handle_delete") /\ InCall(u, "sync_file")))

\* the orphan pass is running a handle_delete after the source pass made
\* its sync_file calls on two threads
C18_Witness ==
    /\ sync.phase = "delete"
    /\ \E t \in Threads : InCall(t, "handle_delete")
    /\ \E i, k \in 1..Len(calls) :
          /\ calls[i].op = "sync_file" /\ calls[k].op = "sync_file"
          /\ calls[i].thread # calls[k].thread

(* C19.  Whenever a thread is in the body of sync_file or handle_delete,   *)
(* after the call's assignment is_syncing = True and before its finally    *)
(* clause, the handler's is_syncing is true, also when several pool        *)
(* threads are in calls of the same handler.                               *)
C19_GuardCoversEveryCallInFlight ==
    (\E t \in Threads : threads[t].pc = "body") => handler.is_syncing

----------------------------------------------------------------------------
(* Properties of cleanup_empty_dirs.                                       *)

\* directory d holds no file and no directory in filesystem f
EmptyIn(f, d) ==
    /\ \A q \in DOMAIN f.files : ~IsUnder(q, d)
    /\ \A e \in f.dirs : ~IsUnder(e, d)

(* C20.  A handle_delete call removes directories only when                *)
(* cleanup_empty_dirs is enabled, and then only directories that are       *)
(* strictly under the destination root, are ancestors of the deleted file  *)
(* and are empty once the file is gone; the removed directories are the    *)
(* file's directory and ancestors in an unbroken chain upward, which a     *)
(* non-empty or read-only directory ends; the directory of the deleted     *)
(* file is removed when it is empty, removable and not the root; a         *)
(* directory that cannot be removed does not make handle_delete fail.      *)
C20_CleanupRemovesOnlyEmptyAncestors ==
    [][Ran("handle_delete")
        => LET dst == Normalize(dest_path_of(handler, last'.path))
               gone == fs.dirs \ fs'.dirs
               deleted == dst \in DOMAIN fs.files /\ dst \notin DOMAIN fs'.files
           IN  /\ ~handler.config.cleanup_empty_dirs => gone = {}
               /\ handler.destination_dir \notin gone
               /\ \A r \in gone :
                     /\ IsUnder(r, handler.destination_dir)
                     /\ IsUnder(dst, r)
                     /\ EmptyIn(fs', r)
                     /\ r \notin fs.readonly
                     /\ r = DirName(dst) \/ SubSeq(dst, 1, Len(r) + 1) \in gone
               /\ (/\ handler.config.cleanup_empty_dirs
                   /\ deleted
                   /\ DirName(dst) # handler.destination_dir
                   /\ DirName(dst) \notin fs.readonly
                   /\ EmptyIn(fs', DirName(dst)))
                    => DirName(dst) \in gone
               /\ deleted => ~last'.raised]_vars

\* a handle_delete has removed the empty k/j, whose parent k is empty too
\* and read-only, and k and the destination root are still there
C20_Witness ==
    /\ last.op = "handle_delete"
    /\ last.path = SKJ
    /\ ~last.raised
    /\ <<M, D, K>> \in fs.readonly
    /\ <<M, D, K, J>> \in last.pre.dirs
    /\ <<M, D, K, J>> \notin fs.dirs
    /\ <<M, D, K>> \in fs.dirs
    /\ EmptyIn(fs, <<M, D, K>>)
    /\ fs.files = [q \in DOMAIN SourceFiles |-> SourceFiles[q]]

----------------------------------------------------------------------------
(* Properties of sync_file over files that cannot be read.                 *)

(* C21.  A sync_file call on a non-excluded path whose destination exists, *)
(* in which the digest of the source or of the destination cannot be       *)
(* computed, returns without raising, under every modified_files policy;   *)
(* the file counts as divergent: under overwrite, outside dry-run, the     *)
(* destination gets the content of a source that can be copied.            *)
C21_HashFailureIsNotPropagated ==
    [][(/\ Ran("sync_file")
        /\ ~should_exclude(handler, last'.path)
        /\ Exists(fs, dest_path_of(handler, last'.path))
        /\ \/ ~Readable(fs, last'.path)
           \/ ~Readable(fs, dest_path_of(handler, last'.path)))
       => /\ ~last'.raised
          /\ (/\ handler.conflict_settings.modified_files = "overwrite"
              /\ ~handler.dry_run
              /\ Readable(fs, last'.path))
               => fs'.files[Normalize(dest_path_of(handler, last'.path))]
                     = fs.files[last'.path]]_vars

(* C22.  Whenever no thread is in the body of a sync_file or handle_delete *)
(* call of the handler, is_syncing is false: after a call that returned    *)
(* on any path (excluded file, identical file, absent destination,         *)
(* dry-run, each policy branch) and after a call that raised, so that a    *)
(* later notification is not dropped by the guard.                         *)
C22_GuardIsClearWhenIdle ==
    (\A t \in Threads : threads[t].pc # "body") => ~handler.is_syncing

\* the first call has raised, no call is in flight, and the next
\* notification passed the guard and its call changed the destination
C22_Witness ==
    /\ \A t \in Threads : threads[t].pc = "idle"
    /\ Len(calls) = 2
    /\ 1 \in failed
    /\ last.id = 2
    /\ ~last.raised
    /\ last.pre # fs
    /\ ~evlog[calls[2].ev].guard
    /\ ~handler.is_syncing

----------------------------------------------------------------------------
(* Properties of the trash directory.                                      *)

\* the trash directory of the handler, and the files it holds in
\* filesystem f
TrashRoot == Join(handler.destination_dir, handler.conflict_settings.trash_dir)
TrashFiles(f) == {p \in DOMAIN f.files : IsUnder(p, TrashRoot)}

(* C23.  Under deleted_files = trash, a handle_delete call leaves every    *)
(* file that is in the trash where it is, with its content: the file it    *)
(* moves goes to a trash path no earlier file holds, also for files with   *)
(* the same basename in different directories trashed within one second,   *)
(* one after the other or by concurrent pool threads.                      *)
C23_TrashedFilesAreKept ==
    [][(/\ Ran("handle_delete")
        /\ handler.conflict_settings.deleted_files = "trash")
       => \A q \in TrashFiles(fs) :
             /\ q \in DOMAIN fs'.files
             /\ fs'.files[q] = fs.files[q]]_vars

----------------------------------------------------------------------------
(* Properties of the exclusion filter in the watcher.                      *)

(* C24.  A call the watcher makes for an excluded path (the path of a      *)
(* created, modified or deleted notification, or the old or the new path   *)
(* of a move, for which should_exclude is true) leaves the destination     *)
(* tree as it was: no destination file is trashed, deleted, copied or      *)
(* overwritten.                                                            *)
C24_ExcludedPathsLeaveDestination ==
    [][(/\ last'.id # last.id
        /\ last'.ev > 0
        /\ should_exclude(handler, last'.path))
       => DestTree(fs') = DestTree(fs)]_vars

----------------------------------------------------------------------------
(* Properties of a repeated perform_initial_sync.                          *)

(* C25.  In a perform_initial_sync run no handle_delete call is made for   *)
(* a file under <destination_root>/<trash_dir>, and every file the trash   *)
(* held at the start is still there with its content, with skip_hidden     *)
(* enabled and disabled and under each deleted_files policy.               *)
C25_TrashIsNotAnOrphan ==
    /\ \A i \in 1..Len(calls) :
          calls[i].op = "handle_delete"
              => ~IsUnder(dest_path_of(handler, calls[i].path), TrashRoot)
    /\ \A q \in TrashFiles(fs0) :
          /\ q \in DOMAIN fs.files
          /\ fs.files[q] = fs0.files[q]

====
